---------------------------- MODULE Spec2Model ----------------------------
(***************************************************************************)
(* A model of the printf engine of grub-core/kern/misc.c: the software     *)
(* divide grub_divmod64, the integer formatter grub_lltoa, the argument    *)
(* scanner parse_printf_args, the renderer grub_vsnprintf_real with its    *)
(* bounded write_char, and the entry points built on them.                 *)
(*                                                                         *)
(* Build modelled: GRUB_MACHINE_EFI undefined, GRUB_DIVISION_IN_SOFTWARE   *)
(* 0, LP64 (long, grub_size_t and pointers as wide as long long).          *)
(*                                                                         *)
(* Integer widths are scaled: `unsigned long long' has WordBits =          *)
(* 2 * HalfBits bits and `int'/grub_uint32_t has HalfBits bits, so that    *)
(* every operand of the word can be enumerated.  Characters are their      *)
(* ASCII codes; a C string is the sequence of its bytes, the terminating   *)
(* NUL left implicit (At reads it).                                        *)
(***************************************************************************)
EXTENDS Integers, Sequences, FiniteSets, TLC

\* Width of `int' / grub_uint32_t in the scaled model (32 in the program).
HalfBits == 3

\* Width of `long long' / grub_uint64_t (64 in the program).
WordBits == 2 * HalfBits

RECURSIVE Pow2(_)
Pow2(k) == IF k = 0 THEN 1 ELSE 2 * Pow2(k - 1)

\* 2^64 and 2^32 of the program; 0xffffffff is Half - 1, 1ULL << 63 is SignBit.
Word == Pow2(WordBits)
Half == Pow2(HalfBits)
SignBit == Word \div 2

Max(a, b) == IF a >= b THEN a ELSE b
Min(a, b) == IF a <= b THEN a ELSE b

VARIABLES
  negmin,   \* what the build yields for -((long long) n) at n = LLONG_MIN
  dpc,      \* grub_divmod64: "idle", "entry", "loop", "done"
  dn, dd,   \* grub_divmod64: the arguments n and d as passed
  dr,       \* grub_divmod64: whether r is non-NULL
  dst,      \* grub_divmod64: the locals n, q, m, bits
  dq,       \* grub_divmod64: the value returned
  drem,     \* grub_divmod64: the value stored in *r (-1: nothing stored)
  lpc,      \* grub_lltoa: "idle", "called", "done"
  lc, ln,   \* grub_lltoa: the arguments c and n as passed
  lout,     \* grub_lltoa: the bytes left in str, before its NUL
  llen,     \* grub_lltoa: the pointer returned, less str as passed
  pc,       \* printf entry points: "idle", "render", "rendered", "done"
  entry,    \* the entry point called: "vsnprintf", "xvasprintf", "none"
  toks,     \* the directives and literals the caller's format is made of
  fmt0,     \* the format string
  va,       \* the caller's variadic arguments, one word-sized slot each
  args,     \* struct printf_args as parse_printf_args leaves it
  str,      \* grub_vsnprintf_real: whether str is non-NULL
  max_len,  \* grub_vsnprintf_real: max_len
  rs,       \* grub_vsnprintf_real: fmt, n, count, the bytes at str
  s,        \* grub_xvasprintf, grub_vprintf: the local s (-1 before it is set)
  ret,      \* the value returned (-1 before the return; 0 is NULL)
  hp,       \* the allocator's record of args->ptr and of the output buffer
  sink,     \* the strings grub_xputs was handed, in order
  inputs    \* the family of formats the callers pass, fixed from the start

divvars == <<dpc, dn, dd, dr, dst, dq, drem>>
ltoavars == <<lpc, lc, ln, lout, llen>>
pfvars ==
  <<pc, entry, toks, fmt0, va, args, str, max_len, rs, s, ret, hp, sink,
    inputs>>
vars == <<negmin, divvars, ltoavars, pfvars>>

(***************************************************************************)
(* Signed overflow of the negation in grub_lltoa is undefined behaviour:   *)
(* the value is whatever the build produces, here two's complement         *)
(* wrap-around or saturation at LLONG_MAX.                                 *)
(***************************************************************************)
NegMinOutcomes == {SignBit, SignBit - 1}

\* ASCII codes of the characters the program and the formats name.
Ascii ==
  ("%" :> 37) @@ ("$" :> 36) @@ ("-" :> 45) @@ ("." :> 46) @@ ("?" :> 63) @@
  ("(" :> 40) @@ (")" :> 41) @@ (" " :> 32) @@ ("|" :> 124) @@
  ("0" :> 48) @@ ("1" :> 49) @@ ("2" :> 50) @@ ("3" :> 51) @@ ("4" :> 52) @@
  ("5" :> 53) @@ ("6" :> 54) @@ ("7" :> 55) @@ ("8" :> 56) @@ ("9" :> 57) @@
  ("A" :> 65) @@ ("C" :> 67) @@ ("X" :> 88) @@
  ("a" :> 97) @@ ("b" :> 98) @@ ("c" :> 99) @@ ("d" :> 100) @@ ("h" :> 104) @@
  ("l" :> 108) @@ ("n" :> 110) @@ ("p" :> 112) @@ ("s" :> 115) @@
  ("u" :> 117) @@ ("x" :> 120) @@ ("y" :> 121) @@ ("z" :> 122)

Ord(ch) == Ascii[ch]

\* The character constants of the program.
CH_percent == 37
CH_dollar == 36
CH_minus == 45
CH_dot == 46
CH_space == 32
CH_question == 63
CH_0 == 48
CH_A == 65
CH_C == 67
CH_X == 88
CH_a == 97
CH_c == 99
CH_d == 100
CH_h == 104
CH_l == 108
CH_p == 112
CH_s == 115
CH_u == 117
CH_x == 120
CH_z == 122

\* The bytes of a string literal given as a tuple of characters.
Str(lit) == [i \in 1 .. Len(lit) |-> Ord(lit[i])]

\* *p for a string and the 1-based position i of p in it; the NUL ends it.
At(cs, i) == IF i >= 1 /\ i <= Len(cs) THEN cs[i] ELSE 0

RECURSIVE Reverse(_)
Reverse(cs) ==
  IF cs = <<>> THEN <<>> ELSE Reverse(Tail(cs)) \o <<Head(cs)>>

-----------------------------------------------------------------------------
(* grub_divmod64 *)

\* if (n < 0xffffffff && d < 0xffffffff)
DivFastPath(n, d) == n < Half - 1 /\ d < Half - 1

\* ((grub_uint32_t) n) / (grub_uint32_t) d and the remainder stored in *r
DivFast(n, d) ==
  [q |-> (n % Half) \div (d % Half), m |-> (n % Half) % (d % Half)]

\* An iteration that subtracts only when m > d.
DivStepStrict(st, d) ==
  LET m1 == (2 * st.m) % Word
      m2 == IF st.n >= SignBit THEN m1 + 1 - (m1 % 2) ELSE m1
      q1 == (2 * st.q) % Word
      n1 == (2 * st.n) % Word
  IN  IF m2 > d
      THEN [n |-> n1, q |-> q1 + 1 - (q1 % 2), m |-> (m2 - d) % Word,
            bits |-> st.bits - 1]
      ELSE [n |-> n1, q |-> q1, m |-> m2, bits |-> st.bits - 1]

\* One iteration of while (bits--): m <<= 1; m |= top bit of n; q <<= 1;
\* n <<= 1; if (m >= d) { q |= 1; m -= d; }
DivStep(st, d) ==
  LET m1 == (2 * st.m) % Word
      m2 == IF st.n >= SignBit THEN m1 + 1 - (m1 % 2) ELSE m1
      q1 == (2 * st.q) % Word
      n1 == (2 * st.n) % Word
  IN  IF m2 >= d
      THEN [n |-> n1, q |-> q1 + 1 - (q1 % 2), m |-> (m2 - d) % Word,
            bits |-> st.bits - 1]
      ELSE [n |-> n1, q |-> q1, m |-> m2, bits |-> st.bits - 1]

\* unsigned bits = 64; q = 0; m = 0;
DivEntry(n) == [n |-> n, q |-> 0, m |-> 0, bits |-> WordBits]

RECURSIVE DivLoop(_, _)
DivLoop(st, d) == IF st.bits = 0 THEN st ELSE DivLoop(DivStep(st, d), d)

\* The whole function: the quotient returned and the remainder for *r.
grub_divmod64(n, d) ==
  IF DivFastPath(n, d)
  THEN DivFast(n, d)
  ELSE LET st == DivLoop(DivEntry(n), d) IN [q |-> st.q, m |-> st.m]

DivIdle ==
  /\ dpc = "idle" /\ dn = 0 /\ dd = 1 /\ dr = FALSE
  /\ dst = DivEntry(0) /\ dq = -1 /\ drem = -1

DivCall ==
  /\ dpc = "idle"
  /\ \E n \in 0 .. Word - 1, d \in 1 .. Word - 1, r \in BOOLEAN :
       /\ dn' = n /\ dd' = d /\ dr' = r
       /\ dst' = DivEntry(n)
  /\ dpc' = "entry"
  /\ UNCHANGED <<negmin, ltoavars, pfvars, dq, drem>>

DivFastReturn ==
  /\ dpc = "entry" /\ DivFastPath(dn, dd)
  /\ dq' = DivFast(dn, dd).q
  /\ drem' = IF dr THEN DivFast(dn, dd).m ELSE drem
  /\ dpc' = "done"
  /\ UNCHANGED <<negmin, ltoavars, pfvars, dn, dd, dr, dst>>

DivIter ==
  /\ \/ dpc = "entry" /\ ~DivFastPath(dn, dd)
     \/ dpc = "loop"
  /\ dst.bits > 0
  /\ dst' = DivStep(dst, dd)
  /\ dpc' = "loop"
  /\ UNCHANGED <<negmin, ltoavars, pfvars, dn, dd, dr, dq, drem>>

DivReturn ==
  /\ dpc = "loop" /\ dst.bits = 0
  /\ dq' = dst.q
  /\ drem' = IF dr THEN dst.m ELSE drem
  /\ dpc' = "done"
  /\ UNCHANGED <<negmin, ltoavars, pfvars, dn, dd, dr, dst>>

-----------------------------------------------------------------------------
(* grub_lltoa *)

\* char tmp[32] of grub_vsnprintf_real, the only caller's buffer
TmpSize == 32

\* (unsigned long long) (-((long long) n)) for (long long) n < 0
LltoaNegate(n) == IF n = SignBit THEN negmin ELSE Word - n

\* do { d = n & 0xf; *p++ = (d > 9) ? d + ((c == 'x') ? 'a' : 'A') - 10
\* : d + '0'; } while (n >>= 4);   the digits least significant first
RECURSIVE LltoaHex(_, _)
LltoaHex(c, n) ==
  <<IF n % 16 > 9
    THEN (n % 16) + (IF c = CH_x THEN CH_a ELSE CH_A) - 10
    ELSE (n % 16) + CH_0>>
  \o (IF n \div 16 # 0 THEN LltoaHex(c, n \div 16) ELSE <<>>)

\* do { n = grub_divmod64 (n, 10, &m); *p++ = m + '0'; } while (n);
RECURSIVE LltoaDec(_)
LltoaDecDigit(r) ==
  <<r.m + CH_0>> \o (IF r.q # 0 THEN LltoaDec(r.q) ELSE <<>>)

LltoaDec(n) == LltoaDecDigit(grub_divmod64(n, 10))

\* The digits written at p, then grub_reverse (str).
LltoaDigits(c, n) ==
  Reverse(IF c = CH_x \/ c = CH_X THEN LltoaHex(c, n) ELSE LltoaDec(n))

\* The bytes grub_lltoa leaves in str: the sign, then the digits reversed
\* behind it.  The pointer returned is str + Len of these.
grub_lltoa(c, n) ==
  IF n >= SignBit /\ c = CH_d
  THEN <<CH_minus>> \o LltoaDigits(c, LltoaNegate(n))
  ELSE LltoaDigits(c, n)

LltoaIdle == lpc = "idle" /\ lc = 0 /\ ln = 0 /\ lout = <<>> /\ llen = 0

LltoaCall ==
  /\ lpc = "idle"
  /\ \E c \in {CH_d, CH_u, CH_x, CH_X}, n \in 0 .. Word - 1 :
       lc' = c /\ ln' = n
  /\ lpc' = "called"
  /\ UNCHANGED <<negmin, divvars, pfvars, lout, llen>>

LltoaReturn ==
  /\ lpc = "called"
  /\ lout' = grub_lltoa(lc, ln)
  /\ llen' = Len(grub_lltoa(lc, ln))
  /\ lpc' = "done"
  /\ UNCHANGED <<negmin, divvars, pfvars, lc, ln>>

-----------------------------------------------------------------------------
(* parse_printf_args *)

\* ARRAY_SIZE (args->prealloc)
PreallocCount == 32

\* The enumerators of printf_arg.type, in declaration order from 0.
Ty ==
  [INT8 |-> 0, INT16 |-> 1, INT |-> 2, LONG |-> 3, LONGLONG |-> 4,
   UINT8 |-> 5, UINT16 |-> 6, UNSIGNED_INT |-> 7, UNSIGNED_LONG |-> 8,
   UNSIGNED_LONGLONG |-> 9]

\* Bits of grub_int8_t and grub_int16_t in the scaled model: narrower than
\* int, and grub_int8_t the narrower.
CharBits == HalfBits - 2
ShortBits == HalfBits - 1

SignExtend(v, bits) ==
  IF v % Pow2(bits) >= Pow2(bits - 1)
  THEN Word - Pow2(bits) + (v % Pow2(bits))
  ELSE v % Pow2(bits)

ZeroExtend(v, bits) == v % Pow2(bits)

\* grub_isdigit of include/grub/misc.h: c >= '0' && c <= '9'
grub_isdigit(c) == c >= CH_0 /\ c <= CH_0 + 9

grub_isspace(c) == c \in {10, 13, 32, 9}

\* while (grub_isdigit (*fmt)) fmt++;
RECURSIVE SkipDigits(_, _)
SkipDigits(fmt, i) ==
  IF grub_isdigit(At(fmt, i)) THEN SkipDigits(fmt, i + 1) ELSE i

RECURSIVE SkipSpaces(_, _)
SkipSpaces(fmt, i) ==
  IF grub_isspace(At(fmt, i)) THEN SkipSpaces(fmt, i + 1) ELSE i

\* The digit loop of grub_strtoull for base 10: a byte that is no decimal
\* digit ends it; num * 10 + digit > ~0ULL returns ~0ULL and leaves *end.
RECURSIVE StrtoullDigits(_, _, _, _)
StrtoullDigits(fmt, i, num, found) ==
  IF ~grub_isdigit(At(fmt, i))
  THEN [num |-> IF found THEN num ELSE 0, end |-> i, set |-> found]
  ELSE IF num > grub_divmod64(Word - 1 - (At(fmt, i) - CH_0), 10).q
       THEN [num |-> Word - 1, end |-> i, set |-> FALSE]
       ELSE StrtoullDigits(fmt, i + 1, num * 10 + (At(fmt, i) - CH_0), TRUE)

\* grub_strtoull (str, end, 10), and grub_strtoul, which is the same where
\* long is as wide as long long: the number, and where *end is left when
\* it is set.
grub_strtoull(fmt, i) == StrtoullDigits(fmt, SkipSpaces(fmt, i), 0, FALSE)

\* grub_strchr ("duxX", c): the terminating NUL of the set is found too.
InDuxX(c) == c \in {CH_d, CH_u, CH_x, CH_X, 0}

\* The second half of LengthModifier, a the outcome of the first.
LengthModifierZ(fmt, a) ==
  IF a.c = CH_z /\ InDuxX(At(fmt, a.i))
  THEN [c |-> At(fmt, a.i), i |-> a.i + 1, longfmt |-> 2]
  ELSE a

\* With c the byte just read and i the position after it:
\* if (c == 'l' || c == 'h') { prev = c; longfmt = c == 'h' ? -1 : 1;
\*   c = *fmt++; if (c == prev) { longfmt *= 2; c = *fmt++; } }
\* if (c == 'z' && grub_strchr ("duxX", *fmt)) { c = *fmt++; longfmt = 2; }
\* The same text, less longfmt, stands in the first pass and the renderer.
LengthModifier(fmt, i, c) ==
  LengthModifierZ(fmt,
    IF c = CH_l \/ c = CH_h
    THEN IF At(fmt, i) = c
         THEN [c |-> At(fmt, i + 1), i |-> i + 2,
               longfmt |-> IF c = CH_h THEN -2 ELSE 2]
         ELSE [c |-> At(fmt, i), i |-> i + 1,
               longfmt |-> IF c = CH_h THEN -1 ELSE 1]
    ELSE [c |-> c, i |-> i, longfmt |-> 0])

\* The conversions the first pass counts.
ConvLetters == {CH_p, CH_x, CH_X, CH_u, CH_d, CH_c, CH_C, CH_s}

\* if (*fmt == ch) fmt++;
Skip(fmt, i, ch) == IF At(fmt, i) = ch THEN i + 1 ELSE i

\* if (*fmt == '-') fmt++;  the digits;  if (*fmt == '.') fmt++;  the digits
SkipWidthPrecision(fmt, i) ==
  SkipDigits(fmt, Skip(fmt, SkipDigits(fmt, Skip(fmt, i, CH_minus)), CH_dot))

\* The end of a directive of the first pass, i7 the position of its letter.
Pass1Letter(fmt, i7) == LengthModifier(fmt, i7 + 1, At(fmt, i7))

\* One directive of the first pass, from the position after its '%': the
\* position after it and the letter the switch sees.
Pass1Directive(fmt, i) ==
  Pass1Letter(fmt,
    SkipWidthPrecision(fmt,
      Skip(fmt, SkipDigits(fmt, Skip(fmt, i, CH_minus)), CH_dollar)))

\* if (c != '%') continue;  as often as it applies: from the position i of a
\* literal byte, the position of the next '%' or of the NUL.
SkipLiterals(fmt, i) ==
  CHOOSE j \in i .. Len(fmt) + 1 :
    /\ At(fmt, j) \in {0, CH_percent}
    /\ \A k \in i .. j - 1 : At(fmt, k) \notin {0, CH_percent}

RECURSIVE Pass1(_, _, _)
Pass1Count(fmt, d, count) ==
  Pass1(fmt, d.i, IF d.c \in ConvLetters THEN count + 1 ELSE count)

\* The first loop over the format: args->count.
Pass1(fmt, i, count) ==
  IF At(fmt, i) = 0 THEN count
  ELSE IF At(fmt, i) # CH_percent
  THEN Pass1(fmt, SkipLiterals(fmt, i), count)
  ELSE Pass1Count(fmt, Pass1Directive(fmt, i + 1), count)

\* The switch of the second pass: the type stored at args->ptr[curn].
Pass2Type(c, longfmt, old) ==
  IF c \in {CH_x, CH_X, CH_u} THEN Ty.UNSIGNED_INT + longfmt
  ELSE IF c = CH_d THEN Ty.INT + longfmt
  ELSE IF c \in {CH_p, CH_s} THEN Ty.UNSIGNED_LONGLONG
  ELSE IF c \in {CH_C, CH_c} THEN Ty.INT
  ELSE old

\* if (curn >= args->count) continue;  and the switch, m the letter read.
Pass2Store(n, types, count, curn, m) ==
  IF curn >= count THEN [i |-> m.i, n |-> n, types |-> types]
  ELSE [i |-> m.i, n |-> n,
        types |-> [types EXCEPT
                     ![curn] = Pass2Type(m.c, m.longfmt, types[curn])]]

\* c = *fmt++; if (c == '%') { n--; continue; }  i7 the position of c.
Pass2Letter(fmt, n, types, count, curn, i7) ==
  IF At(fmt, i7) = CH_percent
  THEN [i |-> i7 + 1, n |-> n - 1, types |-> types]
  ELSE Pass2Store(n, types, count, curn,
                  LengthModifier(fmt, i7 + 1, At(fmt, i7)))

\* p = fmt; the digits; if (*fmt == '$') { curn = grub_strtoull (p, 0, 10)
\* - 1; fmt++; }  with p the position of p and i2 the one after the digits.
Pass2Index(fmt, n, types, count, p, i2) ==
  IF At(fmt, i2) = CH_dollar
  THEN Pass2Letter(fmt, n, types, count,
                   (grub_strtoull(fmt, p).num + Word - 1) % Word,
                   SkipWidthPrecision(fmt, i2 + 1))
  ELSE Pass2Letter(fmt, n, types, count, n - 1,
                   SkipWidthPrecision(fmt, i2))

Pass2Digits(fmt, n, types, count, p) ==
  Pass2Index(fmt, n, types, count, p, SkipDigits(fmt, p))

\* One directive of the second pass, from the position after its '%', with
\* n already incremented (curn = n++): the position after it, n, the types.
Pass2Directive(fmt, i, n, types, count) ==
  Pass2Digits(fmt, n, types, count, Skip(fmt, i, CH_minus))

RECURSIVE Pass2(_, _, _, _, _)
Pass2Continue(fmt, d, count) == Pass2(fmt, d.i, d.n, d.types, count)

\* The second loop over the format: the type of every argument.
Pass2(fmt, i, n, types, count) ==
  IF At(fmt, i) = 0 THEN types
  ELSE IF At(fmt, i) # CH_percent
  THEN Pass2(fmt, SkipLiterals(fmt, i), n, types, count)
  ELSE Pass2Continue(fmt, Pass2Directive(fmt, i + 1, n + 1, types, count),
                     count)

\* The last loop: va_arg by the type recorded, widened to long long.
VaArg(type, slot) ==
  IF type = Ty.INT8 THEN SignExtend(slot, CharBits)
  ELSE IF type = Ty.INT16 THEN SignExtend(slot, ShortBits)
  ELSE IF type = Ty.INT THEN SignExtend(slot, HalfBits)
  ELSE IF type = Ty.UINT8 THEN ZeroExtend(slot, CharBits)
  ELSE IF type = Ty.UINT16 THEN ZeroExtend(slot, ShortBits)
  ELSE IF type = Ty.UNSIGNED_INT THEN ZeroExtend(slot, HalfBits)
  ELSE slot % Word

\* From the memset on: the types of the second pass, then the values.  The
\* value overwrites the type in the union; types keeps what the second pass
\* recorded.
ParseValues(args_in, count, heap, types) ==
  [count |-> count, heap |-> heap,
   ll |-> [k \in 0 .. count - 1 |-> VaArg(types[k], args_in[k + 1])],
   types |-> types]

\* From the choice of args->ptr on, counted the count of the first pass.
ParseAllocate(fmt, args_in, count, heap) ==
  ParseValues(args_in, count, heap,
              Pass2(fmt, 1, 0, [k \in 0 .. count - 1 |-> Ty.INT8], count))

ParseCounted(fmt, args_in, callocOK, counted) ==
  ParseAllocate(fmt, args_in,
                IF counted > PreallocCount /\ ~callocOK
                THEN PreallocCount ELSE counted,
                counted > PreallocCount /\ callocOK)

\* parse_printf_args: count, whether ptr is heap storage, and the values ll.
\* callocOK is the outcome of grub_calloc, asked only above PreallocCount.
parse_printf_args(fmt, args_in, callocOK) ==
  ParseCounted(fmt, args_in, callocOK, Pass1(fmt, 1, 0))

-----------------------------------------------------------------------------
(* write_char and grub_vsnprintf_real *)

\* The call frame of grub_vsnprintf_real: fr.fmt is fmt0, fr.args the
\* printf_args, fr.str whether str is non-NULL, fr.max_len the capacity.
\* Its locals st: st.i the position of fmt in fmt0, st.n, st.count; st.mem
\* the bytes at str[0 .. max_len], the byte at max_len being the first one
\* past the capacity, -1 a byte never stored.  History kept beside them:
\* st.seg the bytes handed to write_char in the current iteration of the
\* main loop, st.segs one record for every iteration finished.

\* A write_char whose bound is off by one: it stores at index max_len too.
write_charOffByOne(fr, st, ch) ==
  [st EXCEPT !.mem = IF fr.str /\ st.count <= fr.max_len
                     THEN [@ EXCEPT ![st.count] = ch % 256] ELSE @,
             !.count = @ + 1,
             !.seg = Append(@, ch % 256)]

\* if (str && *count < max_len) str[*count] = ch;  (*count)++;
write_char(fr, st, ch) ==
  [st EXCEPT !.mem = IF fr.str /\ st.count < fr.max_len
                     THEN [@ EXCEPT ![st.count] = ch % 256] ELSE @,
             !.count = @ + 1,
             !.seg = Append(@, ch % 256)]

RECURSIVE WriteString(_, _, _)
WriteString(fr, st, cs) ==
  IF cs = <<>> THEN st
  ELSE WriteString(fr, write_char(fr, st, Head(cs)), Tail(cs))

\* while (fill--) write_char (str, &count, max_len, zerofill);
RECURSIVE WriteFill(_, _, _, _)
WriteFill(fr, st, fill, zerofill) ==
  IF fill = 0 THEN st
  ELSE WriteFill(fr, write_char(fr, st, zerofill), fill - 1, zerofill)

\* The caller's memory: the string at each non-NULL address passed for %s,
\* "a", "b" and "abcd".
StringAt(p) ==
  IF p = 1 THEN <<CH_a>>
  ELSE IF p = 2 THEN <<CH_a + 1>>
  ELSE <<CH_a, CH_a + 1, CH_c, CH_d>>

\* "(null)"
NullString == <<40, 110, 117, 108, 108, 41>>

\* if (grub_isdigit (*fmt)) format = grub_strtoul (fmt, &fmt, 10); r what
\* grub_strtoul returns, dflt the value format has without digits.  The
\* result is stored in an unsigned int.
ReadFormat(fmt, i, dflt) ==
  IF grub_isdigit(At(fmt, i))
  THEN [num |-> grub_strtoull(fmt, i).num % Half,
        i |-> IF grub_strtoull(fmt, i).set
              THEN grub_strtoull(fmt, i).end ELSE i]
  ELSE [num |-> dflt, i |-> i]

RECURSIVE Rescan(_, _, _)
\* A '$' that resets width and flags but leaves curn the document-order
\* index.
RescanDollarInOrder(fmt, curn, rightfill, zerofill, w, pr) ==
  IF At(fmt, pr.i) = CH_dollar
  THEN Rescan(fmt, pr.i + 1, curn)
  ELSE [i |-> pr.i, curn |-> curn, format1 |-> w.num, format2 |-> pr.num,
        zerofill |-> zerofill, rightfill |-> rightfill]

\* if (*fmt == '$') { curn = format1 - 1; fmt++; the resets; goto rescan; }
\* w and pr the width and the precision read, with the positions after them.
RescanDollar(fmt, curn, rightfill, zerofill, w, pr) ==
  IF At(fmt, pr.i) = CH_dollar
  THEN Rescan(fmt, pr.i + 1, (w.num + Half - 1) % Half)
  ELSE [i |-> pr.i, curn |-> curn, format1 |-> w.num, format2 |-> pr.num,
        zerofill |-> zerofill, rightfill |-> rightfill]

\* if (*fmt == '.') fmt++;  and the precision, ~0U without digits.
RescanPrecision(fmt, curn, rightfill, zerofill, w) ==
  RescanDollar(fmt, curn, rightfill, zerofill, w,
               ReadFormat(fmt, Skip(fmt, w.i, CH_dot), Half - 1))

\* The width, zerofill = '0' when its first digit is 0; i1 the position
\* after the '-'.
RescanWidth(fmt, curn, rightfill, i1) ==
  RescanPrecision(fmt, curn, rightfill,
                  IF At(fmt, i1) = CH_0 THEN CH_0 ELSE CH_space,
                  ReadFormat(fmt, i1, 0))

\* From rescan: to the byte after width and precision: the position of
\* that byte, curn, format1, format2, zerofill, rightfill.
Rescan(fmt, i, curn) ==
  RescanWidth(fmt, curn, At(fmt, i) = CH_minus, Skip(fmt, i, CH_minus))

\* if (! rightfill) the fill;  the digits;  if (rightfill) the fill
RenderNumberFill(fr, st, h, tmp, fill) ==
  IF h.rightfill
  THEN WriteFill(fr, WriteString(fr, st, tmp), fill, h.zerofill)
  ELSE WriteString(fr, WriteFill(fr, st, fill, h.zerofill), tmp)

\* fill = len < format1 ? format1 - len : 0;  tmp what grub_lltoa wrote
RenderNumberLen(fr, st, h, tmp) ==
  RenderNumberFill(fr, st, h, tmp,
                   IF Len(tmp) < h.format1 THEN h.format1 - Len(tmp) ELSE 0)

\* case 'x', 'X', 'u', 'd': len = grub_lltoa (tmp, c, curarg) - tmp; ...
RenderNumber(fr, st, h, c, curarg) ==
  RenderNumberLen(fr, st, h, grub_lltoa(c, curarg))

\* if (!rightfill) the fill;  the len bytes of p;  if (rightfill) the fill
RenderStringFill(fr, st, h, p, len, fill) ==
  IF h.rightfill
  THEN WriteFill(fr, WriteString(fr, st, SubSeq(p, 1, len)), fill, h.zerofill)
  ELSE WriteString(fr, WriteFill(fr, st, fill, h.zerofill), SubSeq(p, 1, len))

\* fill = len < format1 ? format1 - len : 0;
RenderStringLen(fr, st, h, p, len) ==
  RenderStringFill(fr, st, h, p, len,
                   IF len < h.format1 THEN h.format1 - len ELSE 0)

\* while (len < format2 && p[len]) len++;
RenderStringAt(fr, st, h, p) ==
  RenderStringLen(fr, st, h, p, Min(h.format2, Len(p)))

\* case 's': "(null)" for a null pointer.
RenderString(fr, st, h, curarg) ==
  RenderStringAt(fr, st, h,
                 IF curarg # 0 THEN StringAt(curarg) ELSE NullString)

\* for (shift -= 6; shift >= 0; shift -= 6)
\*   write_char (str, &count, max_len, 0x80 | (0x3f & (code >> shift)));
RECURSIVE Utf8Tail(_, _, _, _)
Utf8Tail(fr, st, code, shift) ==
  IF shift < 0 THEN st
  ELSE Utf8Tail(fr, write_char(fr, st, 128 + ((code \div Pow2(shift)) % 64)),
                code, shift - 6)

\* write_char (mask | (code >> shift)) and the continuation bytes.
Utf8Encode(fr, st, code, shift, mask) ==
  Utf8Tail(fr, write_char(fr, st, mask + (code \div Pow2(shift))),
           code, shift - 6)

\* case 'C': the code point as UTF-8, '?' above 0x10ffff.
RenderUtf8(fr, st, code) ==
  IF code <= 127 THEN Utf8Encode(fr, st, code, 0, 0)
  ELSE IF code <= 2047 THEN Utf8Encode(fr, st, code, 6, 192)
  ELSE IF code <= 65535 THEN Utf8Encode(fr, st, code, 12, 224)
  ELSE IF code <= 1114111 THEN Utf8Encode(fr, st, code, 18, 240)
  ELSE Utf8Encode(fr, st, CH_question, 0, 0)

\* switch (c) of the renderer, for an argument in range.
RenderConversion(fr, st, h, c, curarg) ==
  IF c \in {CH_p, CH_x, CH_X, CH_u, CH_d}
  THEN RenderNumber(fr,
         IF c = CH_p
         THEN write_char(fr, write_char(fr, st, CH_0), CH_x) ELSE st,
         h, IF c = CH_p THEN CH_x ELSE c, curarg)
  ELSE IF c = CH_c THEN write_char(fr, st, curarg % 256)
  ELSE IF c = CH_C THEN RenderUtf8(fr, st, curarg % Half)
  ELSE IF c = CH_s THEN RenderString(fr, st, h, curarg)
  ELSE write_char(fr, st, c)

\* format1, format2, zerofill, rightfill as an iteration of the main loop
\* declares them, for an iteration that reads no directive.
NoFormat ==
  [i |-> 0, curn |-> 0, format1 |-> 0, format2 |-> Half - 1,
   zerofill |-> CH_space, rightfill |-> FALSE]

\* The history record of one finished iteration of the main loop: what it
\* was, the letter c, the outcome h of rescan, the bytes it emitted.
EndIteration(st, kind, c, h) ==
  [st EXCEPT !.segs = Append(@, [kind |-> kind, c |-> c, h |-> h,
                                 bytes |-> st.seg])]

\* A switch whose skip gives the index back (n--), as '%' does.
RenderLetterSkipRewinds(fr, st, h, c) ==
  IF c = CH_percent
  THEN EndIteration([write_char(fr, st, c) EXCEPT !.n = @ - 1],
                    "percent", c, h)
  ELSE IF h.curn >= fr.args.count
  THEN EndIteration([st EXCEPT !.n = @ - 1], "skip", c, h)
  ELSE EndIteration(RenderConversion(fr, st, h, c, fr.args.ll[h.curn]),
                    "conv", c, h)

\* if (c == '%') { write_char; n--; continue; }
\* if (curn >= args->count) continue;
\* curarg = args->ptr[curn].ll; and the switch.
RenderLetter(fr, st, h, c) ==
  IF c = CH_percent
  THEN EndIteration([write_char(fr, st, c) EXCEPT !.n = @ - 1],
                    "percent", c, h)
  ELSE IF h.curn >= fr.args.count
  THEN EndIteration(st, "skip", c, h)
  ELSE EndIteration(RenderConversion(fr, st, h, c, fr.args.ll[h.curn]),
                    "conv", c, h)

\* The length modifier read, m its letter and the position after it.
RenderModifier(fr, st, h, m) ==
  RenderLetter(fr, [st EXCEPT !.i = m.i], h, m.c)

\* c = *fmt++ and the length modifier, h the outcome of rescan.
RenderRescanned(fr, st, h) ==
  RenderModifier(fr, st, h,
                 LengthModifier(fr.fmt, h.i + 1, At(fr.fmt, h.i)))

\* A directive, from curn = n++ on, st.i at the byte after the '%'.
RenderDirective(fr, st) ==
  RenderRescanned(fr, [st EXCEPT !.n = @ + 1], Rescan(fr.fmt, st.i, st.n))

\* One iteration of while ((c = *fmt++) != 0), c the byte read.
RenderByte(fr, st, c) ==
  IF c # CH_percent
  THEN EndIteration(write_char(fr, st, c), "literal", c, NoFormat)
  ELSE RenderDirective(fr, st)

RenderStep(fr, st) ==
  RenderByte(fr, [st EXCEPT !.i = @ + 1, !.seg = <<>>], At(fr.fmt, st.i))

\* An end of the renderer that terminates only an output that fits.
RenderFinishFitting(fr, st) ==
  [st EXCEPT !.mem = IF fr.str /\ st.count < fr.max_len
                     THEN [@ EXCEPT ![st.count] = 0] ELSE @]

\* After the loop: if (str) { if (count < max_len) str[count] = '\0';
\* else if (max_len > 0) str[max_len - 1] = '\0'; }  return count;
RenderFinish(fr, st) ==
  [st EXCEPT !.mem = IF ~fr.str THEN @
                     ELSE IF st.count < fr.max_len
                          THEN [@ EXCEPT ![st.count] = 0]
                     ELSE IF fr.max_len > 0
                          THEN [@ EXCEPT ![fr.max_len - 1] = 0]
                     ELSE @]

\* The locals on entry, the destination not yet stored to.
RenderEntry(maxlen) ==
  [i |-> 1, n |-> 0, count |-> 0, mem |-> [k \in 0 .. maxlen |-> -1],
   seg |-> <<>>, segs |-> <<>>]

RECURSIVE RenderLoop(_, _)
RenderLoop(fr, st) ==
  IF At(fr.fmt, st.i) = 0 THEN st ELSE RenderLoop(fr, RenderStep(fr, st))

\* The whole call; count of the result is the value returned.
grub_vsnprintf_real(fr) ==
  RenderFinish(fr, RenderLoop(fr, RenderEntry(fr.max_len)))

-----------------------------------------------------------------------------
(* The entry points grub_vsnprintf, grub_xvasprintf and grub_vprintf *)

\* Longest format, in directives and literal bytes; largest capacity passed.
MaxTokens == 2
MaxCap == 2

\* What the formats are made of: literal bytes and whole directives.
Tokens ==
  { Str(<<"a">>), Str(<<"%", "%">>), Str(<<"%", "d">>), Str(<<"%", "s">>),
    Str(<<"%", "y">>), Str(<<"%", "l", "%">>),
    Str(<<"%", "1", "$", "s">>), Str(<<"%", "2", "$", "s">>),
    Str(<<"%", "2", "$", "d">>), Str(<<"%", "-", "0", "2", "$", "s">>),
    Str(<<"%", "0", "$", "d">>), Str(<<"%", "3", "$", "p">>),
    Str(<<"%", "1", ".", "2", "$", "d">>),
    Str(<<"%", "0", "5", "d">>), Str(<<"%", "-", "0", "5", "d">>),
    Str(<<"%", "0", "5", "s">>) }

TokenSeqs == UNION {[1 .. k -> Tokens] : k \in 0 .. MaxTokens}

RECURSIVE Flatten(_)
Flatten(ts) ==
  IF ts = <<>> THEN <<>>
  ELSE IF Len(ts) = 1 THEN ts[1]
  ELSE Flatten(SubSeq(ts, 1, Len(ts) \div 2))
         \o Flatten(SubSeq(ts, (Len(ts) \div 2) + 1, Len(ts)))

\* The argument lists passed: small positive values, each the address of a
\* string, and LLONG_MIN, NULL, -1.
ArgLists ==
  { [k \in 1 .. MaxTokens |-> k],
    [k \in 1 .. MaxTokens |->
       IF k = 1 THEN SignBit ELSE IF k = 2 THEN 0 ELSE Word - 1] }

\* #define PREALLOC_SIZE 255
PREALLOC_SIZE == 255

\* How far past the inline storage's entries and past the scratch buffer's
\* size the long formats go.
MaxOver == 1

Repeat(x, k) == [j \in 1 .. k |-> x]

\* Long formats: c conversions "%d" followed by m literal bytes, with c at
\* and past the entries of the inline storage and c + m around
\* PREALLOC_SIZE.
LongCounts == {0} \cup (PreallocCount .. PreallocCount + MaxOver)
LongLengths == (PREALLOC_SIZE - 1) .. (PREALLOC_SIZE + MaxOver)
LongWith(c) ==
  { Repeat(Str(<<"%", "d">>), c) \o Repeat(Str(<<"a">>), m) :
      m \in {0} \cup {L - c : L \in LongLengths} }
LongSeqs == UNION {LongWith(c) : c \in LongCounts}

\* Their arguments: one-digit values.
LongArgLists == { [k \in 1 .. PreallocCount + MaxOver |-> 1 + (k % 3)] }

\* The formats and the argument lists of a family of inputs.
Formats(family) == IF family = "directives" THEN TokenSeqs ELSE LongSeqs
Arguments(family) == IF family = "directives" THEN ArgLists ELSE LongArgLists

\* The outcomes of grub_calloc in parse_printf_args, which is called only
\* when the count exceeds the inline storage.
CallocOutcomes(fmt) ==
  IF Pass1(fmt, 1, 0) > PreallocCount THEN BOOLEAN ELSE {TRUE}

Frame == [fmt |-> fmt0, args |-> args, str |-> str, max_len |-> max_len]

\* The allocator's record before a call: args the state of the array
\* args->ptr points to ("inline" for args->prealloc, "live", "freed"), buf
\* that of the output buffer ("none", "live", "freed"); how often each was
\* passed to grub_free, whether args->prealloc was, and whether either was
\* read after it was freed.
NoHeap ==
  [args |-> "inline", argsfrees |-> 0, inlinefreed |-> FALSE,
   argsread |-> FALSE, buf |-> "none", buffrees |-> 0, bufread |-> FALSE]

\* The record after parse_printf_args has chosen args->ptr.
AllocArgs(a) == [NoHeap EXCEPT !.args = IF a.heap THEN "live" ELSE "inline"]

\* A read of args->count or args->ptr[curn] by the renderer.
ReadArgs(h) == [h EXCEPT !.argsread = @ \/ h.args = "freed"]

\* A free_printf_args that passes args->ptr to grub_free whatever it is.
free_printf_argsAlways(h, a) ==
  IF a.heap
  THEN [h EXCEPT !.args = "freed", !.argsfrees = @ + 1]
  ELSE [h EXCEPT !.inlinefreed = TRUE]

\* if (args->ptr != args->prealloc) grub_free (args->ptr);
free_printf_args(h, a) ==
  IF a.heap THEN [h EXCEPT !.args = "freed", !.argsfrees = @ + 1] ELSE h

\* grub_malloc has returned the output buffer.
AllocBuf(h) == [h EXCEPT !.buf = "live"]

\* grub_free (curbuf)
FreeBuf(h) == [h EXCEPT !.buf = "freed", !.buffrees = @ + 1]

\* grub_xputs (curbuf) reads the buffer, when it is one grub_malloc gave.
ReadBuf(h) == [h EXCEPT !.bufread = @ \/ h.buf = "freed"]

NoArgs == [count |-> 0, heap |-> FALSE, ll |-> <<>>, types |-> <<>>]

PfIdle ==
  /\ pc = "idle" /\ entry = "none" /\ toks = <<>> /\ fmt0 = <<>>
  /\ va = <<>> /\ args = NoArgs /\ str = FALSE /\ max_len = 0
  /\ rs = RenderEntry(0) /\ s = -1 /\ ret = -1
  /\ hp = NoHeap /\ sink = <<>>

\* grub_vsnprintf (str, n, fmt, ap) up to its call of grub_vsnprintf_real.
Call_vsnprintf ==
  /\ pc = "idle"
  /\ \E ts \in Formats(inputs), ap \in Arguments(inputs), sp \in BOOLEAN,
        n \in 0 .. MaxCap :
       /\ sp \/ n = 0
       /\ toks' = ts /\ fmt0' = Flatten(ts) /\ va' = ap
       /\ \E ok \in CallocOutcomes(Flatten(ts)) :
            args' = parse_printf_args(Flatten(ts), ap, ok)
       /\ str' = sp /\ max_len' = n
       /\ rs' = RenderEntry(n)
  /\ hp' = AllocArgs(args')
  /\ entry' = "vsnprintf" /\ pc' = "render"
  /\ UNCHANGED <<negmin, divvars, ltoavars, s, ret, sink, inputs>>

\* grub_xvasprintf (fmt, ap) up to grub_vsnprintf_real (NULL, 0, fmt, &args).
Call_xvasprintf ==
  /\ pc = "idle"
  /\ \E ts \in Formats(inputs), ap \in Arguments(inputs) :
       /\ toks' = ts /\ fmt0' = Flatten(ts) /\ va' = ap
       /\ \E ok \in CallocOutcomes(Flatten(ts)) :
            args' = parse_printf_args(Flatten(ts), ap, ok)
  /\ hp' = AllocArgs(args')
  /\ str' = FALSE /\ max_len' = 0 /\ rs' = RenderEntry(0)
  /\ entry' = "xvasprintf" /\ pc' = "render"
  /\ UNCHANGED <<negmin, divvars, ltoavars, s, ret, sink, inputs>>

\* An iteration of the renderer's loop that copies a literal byte.
RenderLiteral ==
  /\ pc = "render"
  /\ At(fmt0, rs.i) # 0 /\ At(fmt0, rs.i) # CH_percent
  /\ rs' = RenderStep(Frame, rs)
  /\ UNCHANGED <<negmin, divvars, ltoavars, pc, entry, toks, fmt0, va, args,
                 str, max_len, s, ret, hp, sink, inputs>>

\* The iteration just made went as far as if (curn >= args->count).
ReadsArgs(st) == st.segs[Len(st.segs)].kind \in {"skip", "conv"}

\* An iteration of the renderer's loop that handles a directive.
RenderPercent ==
  /\ pc = "render"
  /\ At(fmt0, rs.i) = CH_percent
  /\ rs' = RenderStep(Frame, rs)
  /\ hp' = IF ReadsArgs(rs') THEN ReadArgs(hp) ELSE hp
  /\ UNCHANGED <<negmin, divvars, ltoavars, pc, entry, toks, fmt0, va, args,
                 str, max_len, s, ret, sink, inputs>>

\* The end of the format: the terminator, and the return of the renderer.
RenderReturn ==
  /\ pc = "render"
  /\ At(fmt0, rs.i) = 0
  /\ rs' = RenderFinish(Frame, rs)
  /\ pc' = "rendered"
  /\ UNCHANGED <<negmin, divvars, ltoavars, entry, toks, fmt0, va, args,
                 str, max_len, s, ret, hp, sink, inputs>>

\* A return of the renderer's length whatever the capacity.
VsnprintfResultLength(strp, r, n) == r

\* if (!str) return ret;  return ret < n ? ret : n;
VsnprintfResult(strp, r, n) == IF ~strp THEN r ELSE IF r < n THEN r ELSE n

\* grub_vsnprintf after the renderer: free_printf_args and the return.
Return_vsnprintf ==
  /\ pc = "rendered" /\ entry = "vsnprintf"
  /\ hp' = free_printf_args(hp, args)
  /\ ret' = VsnprintfResult(str, rs.count, max_len)
  /\ pc' = "done"
  /\ UNCHANGED <<negmin, divvars, ltoavars, entry, toks, fmt0, va, args,
                 str, max_len, rs, s, sink, inputs>>

\* A size without room for the terminator.
XvasprintfSizeExact(count) == count

\* s++ after the dry run: the size asked of grub_malloc.
XvasprintfSize(count) == count + 1

\* grub_xvasprintf after the dry run: s++; ret = grub_malloc (s); and the
\* second call grub_vsnprintf_real (ret, s, fmt, &args) up to its loop.
Malloc_xvasprintf ==
  /\ pc = "rendered" /\ entry = "xvasprintf" /\ s = -1
  /\ s' = XvasprintfSize(rs.count)
  /\ str' = TRUE /\ max_len' = XvasprintfSize(rs.count)
  /\ rs' = RenderEntry(XvasprintfSize(rs.count))
  /\ hp' = AllocBuf(hp)
  /\ pc' = "render"
  /\ UNCHANGED <<negmin, divvars, ltoavars, entry, toks, fmt0, va, args, ret,
                 sink, inputs>>

\* grub_malloc fails: goto err, grub_error_pop, free_printf_args, and NULL
\* is returned.
MallocFails_xvasprintf ==
  /\ pc = "rendered" /\ entry = "xvasprintf" /\ s = -1
  /\ s' = XvasprintfSize(rs.count)
  /\ hp' = free_printf_args(hp, args)
  /\ ret' = 0
  /\ pc' = "done"
  /\ UNCHANGED <<negmin, divvars, ltoavars, entry, toks, fmt0, va, args,
                 str, max_len, rs, sink, inputs>>

\* grub_xvasprintf after the second pass: free_printf_args, and the buffer
\* is returned.
Return_xvasprintf ==
  /\ pc = "rendered" /\ entry = "xvasprintf" /\ s # -1
  /\ hp' = free_printf_args(hp, args)
  /\ ret' = 1
  /\ pc' = "done"
  /\ UNCHANGED <<negmin, divvars, ltoavars, entry, toks, fmt0, va, args,
                 str, max_len, rs, s, sink, inputs>>

\* The index of the first NUL of a buffer of cells 0 .. cap (cap + 1 when
\* there is none).
FirstNul(mem, cap) ==
  CHOOSE k \in 0 .. cap + 1 :
    /\ k = cap + 1 \/ mem[k] = 0
    /\ \A j \in 0 .. k - 1 : mem[j] # 0

\* grub_xputs (curbuf): the string the sink is handed, the bytes before the
\* first NUL, and whether the buffer holds that NUL.
Xputs(mem, cap) ==
  [text |-> [j \in 1 .. FirstNul(mem, cap) |-> mem[j - 1]],
   terminated |-> FirstNul(mem, cap) <= cap]

\* buf[PREALLOC_SIZE - 3] = '.'; ... buf[PREALLOC_SIZE] = 0;
Ellipsis(mem) ==
  [mem EXCEPT ![PREALLOC_SIZE - 3] = CH_dot, ![PREALLOC_SIZE - 2] = CH_dot,
              ![PREALLOC_SIZE - 1] = CH_dot, ![PREALLOC_SIZE] = 0]

\* The capacity grub_vprintf gives the fallback pass: s.
VprintfCapacity(count) == count

\* grub_vprintf after the rendering: free_printf_args (&args);
\* grub_xputs (curbuf); if (curbuf != buf) grub_free (curbuf);
VprintfTail(h, a, allocated) ==
  IF allocated
  THEN FreeBuf(ReadBuf(free_printf_args(h, a)))
  ELSE ReadBuf(free_printf_args(h, a))

\* grub_vprintf (fmt, ap) up to grub_vsnprintf_real (buf, PREALLOC_SIZE, ...).
Call_vprintf ==
  /\ pc = "idle"
  /\ \E ts \in Formats(inputs), ap \in Arguments(inputs) :
       /\ toks' = ts /\ fmt0' = Flatten(ts) /\ va' = ap
       /\ \E ok \in CallocOutcomes(Flatten(ts)) :
            args' = parse_printf_args(Flatten(ts), ap, ok)
  /\ hp' = AllocArgs(args')
  /\ str' = TRUE /\ max_len' = PREALLOC_SIZE /\ rs' = RenderEntry(PREALLOC_SIZE)
  /\ entry' = "vprintf" /\ pc' = "render"
  /\ UNCHANGED <<negmin, divvars, ltoavars, s, ret, sink, inputs>>

\* grub_vprintf when s > PREALLOC_SIZE is false: the scratch buffer is
\* emitted and s returned.
Fits_vprintf ==
  /\ pc = "rendered" /\ entry = "vprintf" /\ s = -1
  /\ ~(rs.count > PREALLOC_SIZE)
  /\ s' = rs.count
  /\ hp' = VprintfTail(hp, args, FALSE)
  /\ sink' = Append(sink, Xputs(rs.mem, max_len))
  /\ ret' = rs.count
  /\ pc' = "done"
  /\ UNCHANGED <<negmin, divvars, ltoavars, entry, toks, fmt0, va, args,
                 str, max_len, rs, inputs>>

\* s > PREALLOC_SIZE and curbuf = grub_malloc (s + 1) succeeds: the second
\* call grub_vsnprintf_real (curbuf, s, fmt, &args) up to its loop.
Malloc_vprintf ==
  /\ pc = "rendered" /\ entry = "vprintf" /\ s = -1
  /\ rs.count > PREALLOC_SIZE
  /\ s' = rs.count
  /\ hp' = AllocBuf(hp)
  /\ max_len' = VprintfCapacity(rs.count)
  /\ rs' = RenderEntry(VprintfCapacity(rs.count))
  /\ pc' = "render"
  /\ UNCHANGED <<negmin, divvars, ltoavars, entry, toks, fmt0, va, args,
                 str, ret, sink, inputs>>

\* s > PREALLOC_SIZE and grub_malloc fails: the scratch buffer ending in
\* "..." is emitted and s returned.
MallocFails_vprintf ==
  /\ pc = "rendered" /\ entry = "vprintf" /\ s = -1
  /\ rs.count > PREALLOC_SIZE
  /\ s' = rs.count
  /\ rs' = [rs EXCEPT !.mem = Ellipsis(rs.mem)]
  /\ hp' = VprintfTail(hp, args, FALSE)
  /\ sink' = Append(sink, Xputs(Ellipsis(rs.mem), max_len))
  /\ ret' = rs.count
  /\ pc' = "done"
  /\ UNCHANGED <<negmin, divvars, ltoavars, entry, toks, fmt0, va, args,
                 str, max_len, inputs>>

\* grub_vprintf after the second pass: the allocated buffer is emitted and
\* freed, and the second pass's s returned.
Return_vprintf ==
  /\ pc = "rendered" /\ entry = "vprintf" /\ s # -1
  /\ s' = rs.count
  /\ hp' = VprintfTail(hp, args, TRUE)
  /\ sink' = Append(sink, Xputs(rs.mem, max_len))
  /\ ret' = rs.count
  /\ pc' = "done"
  /\ UNCHANGED <<negmin, divvars, ltoavars, entry, toks, fmt0, va, args,
                 str, max_len, rs, inputs>>

-----------------------------------------------------------------------------
(* The specifications *)

Init ==
  /\ negmin \in NegMinOutcomes /\ DivIdle /\ LltoaIdle /\ PfIdle
  /\ inputs = "directives"

Next ==
  \/ Call_vsnprintf \/ Call_xvasprintf
  \/ RenderLiteral \/ RenderPercent \/ RenderReturn
  \/ Return_vsnprintf
  \/ Malloc_xvasprintf \/ MallocFails_xvasprintf \/ Return_xvasprintf

Spec == Init /\ [][Next]_vars

\* The three entry points on the long formats.
PrintInit ==
  /\ negmin \in NegMinOutcomes /\ DivIdle /\ LltoaIdle /\ PfIdle
  /\ inputs = "long"

PrintNext ==
  \/ Call_vsnprintf \/ Call_xvasprintf \/ Call_vprintf
  \/ RenderLiteral \/ RenderPercent \/ RenderReturn
  \/ Return_vsnprintf
  \/ Malloc_xvasprintf \/ MallocFails_xvasprintf \/ Return_xvasprintf
  \/ Fits_vprintf \/ Malloc_vprintf \/ MallocFails_vprintf
  \/ Return_vprintf

SpecPrint == PrintInit /\ [][PrintNext]_vars

LltoaInit ==
  /\ negmin \in NegMinOutcomes /\ DivIdle /\ LltoaIdle /\ PfIdle
  /\ inputs = "directives"

LltoaNext == LltoaCall \/ LltoaReturn

SpecLltoa == LltoaInit /\ [][LltoaNext]_vars

DivInit ==
  /\ negmin = SignBit /\ DivIdle /\ LltoaIdle /\ PfIdle
  /\ inputs = "directives"

DivNext == DivCall \/ DivFastReturn \/ DivIter \/ DivReturn

SpecDiv == DivInit /\ [][DivNext]_vars

-----------------------------------------------------------------------------
(* The claims *)

\* The bytes handed to write_char in the iterations recorded, in order.
RECURSIVE SegBytes(_)
SegBytes(segs) ==
  IF segs = <<>> THEN <<>> ELSE Head(segs).bytes \o SegBytes(Tail(segs))

\* The renderer's locals after a dry run of fmt over the arguments ap.
Rendering(fmt, ap) ==
  RenderLoop([fmt |-> fmt, args |-> parse_printf_args(fmt, ap, TRUE),
              str |-> FALSE, max_len |-> 0],
             RenderEntry(0))

\* C1: while the renderer runs no byte is stored at an index >= max_len,
\* none at all without a destination or with max_len = 0, each byte stored
\* is the byte emitted at that index, and count is the number of bytes
\* emitted, stored or not.
C1_BoundedWrite ==
  /\ rs.count = Len(SegBytes(rs.segs))
  /\ \A k \in DOMAIN rs.mem : (k >= max_len \/ ~str) => rs.mem[k] = -1
  /\ pc = "render" =>
       \A k \in DOMAIN rs.mem :
         rs.mem[k] # -1 => (k < rs.count /\ rs.mem[k] = SegBytes(rs.segs)[k + 1])

\* A byte has been emitted past a capacity of one, with a destination.
C1_Witness ==
  /\ pc = "render" /\ str /\ max_len = 1 /\ rs.count = 2
  /\ rs.mem[0] = SegBytes(rs.segs)[1]

\* C2: after a rendering of length L into a destination of capacity
\* k >= 1 the destination holds the first min(k-1, L) bytes of the
\* untruncated rendering and a terminator at index min(L, k-1), and
\* nothing behind it.
C2_Truncation ==
  (pc = "rendered" /\ str /\ max_len >= 1) =>
    LET full == SegBytes(Rendering(fmt0, va).segs)
        m == Min(max_len - 1, Len(full))
    IN  /\ \A k \in 0 .. m - 1 : rs.mem[k] = full[k + 1]
        /\ rs.mem[m] = 0
        /\ m = IF max_len <= Len(full) THEN max_len - 1 ELSE Len(full)
        /\ \A k \in m + 1 .. max_len : rs.mem[k] = -1

\* A rendering of three bytes or more has been cut to a capacity of two.
C2_Witness ==
  /\ pc = "rendered" /\ str /\ max_len = 2 /\ rs.count >= 3
  /\ rs.mem[0] # -1 /\ rs.mem[1] = 0

\* C3, as stated: grub_vsnprintf returns the untruncated length of the
\* rendering for every capacity n, a length above n included.
C3_ReturnsLength ==
  (pc = "done" /\ entry = "vsnprintf") => ret = rs.count

\* C3, amended: grub_vsnprintf returns the length of the rendering when
\* it has no destination, and the smaller of that length and n when it
\* has one.
C3_ReturnsClampedLength ==
  (pc = "done" /\ entry = "vsnprintf") =>
    ret = IF str THEN Min(rs.count, max_len) ELSE rs.count

\* A rendering longer than the capacity has been returned from.
C3_Witness ==
  /\ pc = "done" /\ entry = "vsnprintf" /\ str
  /\ rs.count > max_len /\ ret = max_len

\* C4: the length L of the dry run of grub_xvasprintf is the number of
\* bytes its second pass stores into the capacity L + 1: all L bytes of
\* the rendering, and the terminator at index L.
C4_DryRunLength ==
  (pc = "rendered" /\ entry = "xvasprintf" /\ s # -1) =>
    /\ s = rs.count + 1 /\ max_len = s
    /\ \A k \in 0 .. rs.count - 1 : rs.mem[k] = SegBytes(rs.segs)[k + 1]
    /\ rs.mem[rs.count] = 0

\* The second pass has stored two bytes and the terminator behind them.
C4_Witness ==
  /\ pc = "rendered" /\ entry = "xvasprintf" /\ s = 3
  /\ rs.mem[0] # -1 /\ rs.mem[1] # -1 /\ rs.mem[2] = 0

\* The directive of an unrecognized letter, and that letter.
UnrecognizedDirective == <<CH_percent, 121>>
UnrecognizedLetter == <<121>>

HasDollar(t) == \E k \in DOMAIN t : t[k] = CH_dollar

\* C5: a directive whose letter is none of p, x, X, u, d, c, C, s, % is
\* passed through and takes no argument: a format without positional
\* conversions renders as the format does in which the directive is the
\* bare letter.
C5_PassThrough ==
  ( /\ pc = "rendered"
    /\ \E k \in DOMAIN toks : toks[k] = UnrecognizedDirective
    /\ \A k \in DOMAIN toks : ~HasDollar(toks[k]) ) =>
    SegBytes(rs.segs) =
      SegBytes(Rendering(
                 Flatten([k \in DOMAIN toks |->
                            IF toks[k] = UnrecognizedDirective
                            THEN UnrecognizedLetter ELSE toks[k]]),
                 va).segs)

\* What a conversion of letter c renders of the value v without padding.
ConversionBody(c, v, format2) ==
  IF c = CH_s
  THEN SubSeq(IF v = 0 THEN NullString ELSE StringAt(v), 1,
              Min(format2, Len(IF v = 0 THEN NullString ELSE StringAt(v))))
  ELSE grub_lltoa(c, v)

\* C6: a padded conversion emits max(width, length) bytes; the pad byte
\* is '0' only for a right-justified d, u, x, X whose width starts with 0,
\* and a space in every other case; the pad is before the body when
\* right-justified, behind it when left-justified.
C6_FillLaw ==
  pc = "rendered" =>
    \A k \in DOMAIN rs.segs :
      (rs.segs[k].kind = "conv"
       /\ rs.segs[k].c \in {CH_d, CH_u, CH_x, CH_X, CH_s}) =>
        LET g == rs.segs[k]
            body == ConversionBody(g.c, args.ll[g.h.curn], g.h.format2)
            pad == Max(g.h.format1, Len(body)) - Len(body)
            zero == ~g.h.rightfill /\ g.c # CH_s /\ g.h.zerofill = CH_0
            fill == [j \in 1 .. pad |-> IF zero THEN CH_0 ELSE CH_space]
        IN  g.bytes = IF g.h.rightfill THEN body \o fill ELSE fill \o body

\* The digits of v in the given base, most significant first, no leading
\* zero: the reference the formatter is compared with.
RECURSIVE RefDigits(_, _, _)
RefDigits(v, base, alpha) ==
  LET d == v % base
      ch == IF d > 9 THEN alpha + d - 10 ELSE CH_0 + d
  IN  IF v < base THEN <<ch>> ELSE RefDigits(v \div base, base, alpha) \o <<ch>>

RefLltoa(c, n) ==
  IF c = CH_x THEN RefDigits(n, 16, CH_a)
  ELSE IF c = CH_X THEN RefDigits(n, 16, CH_A)
  ELSE IF c = CH_d /\ n >= SignBit
       THEN <<CH_minus>> \o RefDigits(Word - n, 10, 0)
  ELSE RefDigits(n, 10, 0)

\* The value of the decimal digits of t from position i on.
RECURSIVE RefDecimal(_, _, _)
RefDecimal(t, i, acc) ==
  IF i <= Len(t) /\ t[i] >= CH_0 /\ t[i] <= CH_0 + 9
  THEN RefDecimal(t, i + 1, 10 * acc + t[i] - CH_0)
  ELSE acc

\* The position in t of the first byte from i on that is no digit.
RECURSIVE RefDigitsEnd(_, _)
RefDigitsEnd(t, i) ==
  IF i <= Len(t) /\ t[i] >= CH_0 /\ t[i] <= CH_0 + 9
  THEN RefDigitsEnd(t, i + 1) ELSE i

\* Where the digits of a directive t start: behind '%' and a '-'.
RefDigitsStart(t) == IF Len(t) >= 2 /\ t[2] = CH_minus THEN 3 ELSE 2

\* t is %N$ and a conversion letter, the digits N directly before the '$'.
IsPositional(t) ==
  /\ Len(t) >= 4 /\ t[1] = CH_percent
  /\ RefDigitsEnd(t, RefDigitsStart(t)) > RefDigitsStart(t)
  /\ RefDigitsEnd(t, RefDigitsStart(t)) = Len(t) - 1
  /\ t[Len(t) - 1] = CH_dollar
  /\ t[Len(t)] \in ConvLetters

PosIndex(t) == RefDecimal(t, RefDigitsStart(t), 0)

\* What the conversion letter c renders of the caller's argument v when no
\* width, precision or flag applies.
RefArgument(c, v) ==
  IF c = CH_s THEN (IF v = 0 THEN NullString ELSE StringAt(v))
  ELSE IF c = CH_p THEN <<CH_0, CH_x>> \o RefLltoa(CH_x, v)
  ELSE IF c = CH_d THEN RefLltoa(CH_d, SignExtend(v, HalfBits))
  ELSE RefLltoa(c, ZeroExtend(v, HalfBits))

\* Every conversion of the format is positional and their indices are a
\* permutation of 1 .. count.
PermutationFormat ==
  /\ toks # <<>>
  /\ \A k \in DOMAIN toks : IsPositional(toks[k])
  /\ {PosIndex(toks[k]) : k \in DOMAIN toks} = 1 .. Len(toks)

\* C7: a conversion %N$ formats the caller's N-th argument wherever it
\* stands, the digits are no width, and width, precision, fill and
\* justification read before the '$' are reset: in a format whose
\* conversions are all positional and name a permutation of 1 .. count,
\* each conversion renders the argument it names.
C7_PositionalSelection ==
  (pc = "rendered" /\ PermutationFormat) =>
    /\ args.count = Len(toks)
    /\ \A k \in DOMAIN toks :
         LET g == rs.segs[k] IN
           /\ g.kind = "conv"
           /\ g.h.curn = PosIndex(toks[k]) - 1
           /\ g.h.format1 = 0 /\ g.h.format2 = Half - 1
           /\ g.h.zerofill = CH_space /\ ~g.h.rightfill
           /\ g.bytes = RefArgument(toks[k][Len(toks[k])],
                                    va[PosIndex(toks[k])])

\* "%-02$s%1$s" over the addresses of "a" and "b" has rendered "ba".
C7_Witness ==
  /\ pc = "rendered" /\ PermutationFormat /\ Len(toks) = 2
  /\ toks[1] = <<CH_percent, CH_minus, CH_0, CH_0 + 2, CH_dollar, CH_s>>
  /\ va[1] = 1
  /\ SegBytes(rs.segs) = <<CH_a + 1, CH_a>>

\* C8: grub_divmod64 returns q and stores r with n = q*d + r and 0 <= r < d
\* for every n and every d # 0, on the 32-bit fast path and on the
\* shift-and-subtract path alike; while the loop runs the running remainder
\* is below d and its next shift does not overflow the word; the quotient
\* does not depend on whether a remainder destination is supplied.
C8_DivmodCorrect ==
  /\ dpc = "done" =>
       /\ dq = dn \div dd
       /\ dr => (drem = dn % dd /\ dn = dq * dd + drem /\ 0 <= drem /\ drem < dd)
       /\ ~dr => drem = -1
  /\ (dpc = "loop" \/ (dpc = "entry" /\ ~DivFastPath(dn, dd))) =>
       /\ dst.m < dd
       /\ dst.bits > 0 => 2 * dst.m + 1 < Word

\* The loop has run to the end for a divisor above half the word range that
\* fits once into n, with a remainder destination.
C8_Witness ==
  /\ dpc = "done" /\ dr /\ dd > SignBit /\ dn > dd
  /\ dq = 1 /\ drem = dn - dd

\* toks without its k-th directive.
RemoveAt(ts, k) == SubSeq(ts, 1, k - 1) \o SubSeq(ts, k + 1, Len(ts))

\* C9, as stated: a conversion whose index is >= count emits no byte, and
\* every later conversion renders the bytes it renders in the format from
\* which the out-of-range conversion is removed.
C9_SkipAsRemoved ==
  pc = "rendered" =>
    \A k \in DOMAIN rs.segs :
      rs.segs[k].kind = "skip" =>
        /\ rs.segs[k].bytes = <<>>
        /\ \A j \in k + 1 .. Len(rs.segs) :
             rs.segs[j].kind = "conv" =>
               rs.segs[j].bytes =
                 Rendering(Flatten(RemoveAt(toks, k)), va).segs[j - 1].bytes

\* The ArgumentStore made long enough for every index a directive can
\* name, the values of the caller's kept.
LongStore(a) ==
  [count |-> Half, heap |-> a.heap,
   ll |-> [k \in 0 .. Half - 1 |-> IF k < a.count THEN a.ll[k] ELSE 0],
   types |-> a.types]

\* C9, amended: a conversion whose index is >= count emits no byte and
\* leaves the length as it is, and it keeps its place in document order:
\* every later conversion in range has the index and renders the bytes it
\* has and renders when the store holds an argument at the skipped index.
C9_SkipKeepsPlace ==
  pc = "rendered" =>
    \A k \in DOMAIN rs.segs :
      rs.segs[k].kind = "skip" =>
        /\ rs.segs[k].bytes = <<>>
        /\ \A j \in k + 1 .. Len(rs.segs) :
             rs.segs[j].kind = "conv" =>
               LET wide == RenderLoop([Frame EXCEPT !.args = LongStore(args)],
                                      RenderEntry(max_len)).segs[j]
               IN  /\ wide.h.curn = rs.segs[j].h.curn
                   /\ wide.bytes = rs.segs[j].bytes

\* "%3$p%d" with two arguments: the first conversion skipped, the second
\* rendered.
C9_Witness ==
  /\ pc = "rendered" /\ Len(rs.segs) = 2
  /\ rs.segs[1].kind = "skip" /\ rs.segs[1].c = CH_p
  /\ rs.segs[1].h.curn = 2
  /\ rs.segs[2].kind = "conv" /\ rs.segs[2].c = CH_d
  /\ rs.segs[2].bytes # <<>>

\* C10: grub_lltoa renders every value correctly: signed decimal for d, with
\* '-' and the magnitude for every negative value, the minimum included;
\* unsigned decimal for u; lower/upper case hexadecimal for x/X; most
\* significant digit first, no leading zero; the result and its NUL fit tmp.
C10_LltoaCanonical ==
  lpc = "done" =>
    /\ lout = RefLltoa(lc, ln)
    /\ llen = Len(lout)
    /\ llen + 1 <= TmpSize

\* C11: the argument array is released on every path of grub_vprintf,
\* grub_vsnprintf and grub_xvasprintf, whatever grub_calloc and grub_malloc
\* return: when the call has returned a heap-allocated array has been freed
\* exactly once and not before; the inline storage is never passed to
\* grub_free; the array is never read once freed; and the buffer
\* grub_vprintf allocated is freed exactly once, after grub_xputs read it.
C11_ArgsReleased ==
  /\ ~hp.inlinefreed
  /\ ~hp.argsread /\ ~hp.bufread
  /\ hp.args = "freed" => pc = "done"
  /\ pc = "done" =>
       IF args.heap
       THEN hp.args = "freed" /\ hp.argsfrees = 1
       ELSE hp.args = "inline" /\ hp.argsfrees = 0
  /\ entry = "vprintf" =>
       /\ hp.buf = "freed" => pc = "done" /\ Len(sink) = 1
       /\ pc = "done" =>
            IF s > PREALLOC_SIZE /\ max_len # PREALLOC_SIZE
            THEN hp.buf = "freed" /\ hp.buffrees = 1
            ELSE hp.buf = "none" /\ hp.buffrees = 0

\* grub_vprintf has returned after both allocations succeeded: more
\* conversions than the inline storage holds, a rendering longer than the
\* scratch buffer.
C11_Witness ==
  /\ pc = "done" /\ entry = "vprintf"
  /\ args.heap /\ args.count > PreallocCount
  /\ hp.args = "freed" /\ hp.buf = "freed"

\* The length modifier the renderer read before the letter of the directive
\* whose iteration is sg.
RenderedLongfmt(sg) == LengthModifier(fmt0, sg.h.i + 1, At(fmt0, sg.h.i)).longfmt

\* The iterations of the renderer that took an argument index.
Indexed == {k \in DOMAIN rs.segs : rs.segs[k].kind \in {"skip", "conv"}}

\* No other directive of the format was given the index of iteration k.
SoleUser(k) ==
  \A j \in Indexed : j # k => rs.segs[j].h.curn # rs.segs[k].h.curn

\* C12: the second pass of parse_printf_args and the renderer give every
\* directive the same argument index: the type the scanner recorded at the
\* index a conversion is rendered from is the type of that conversion, and
\* the count of the first pass is the number of indices the renderer has
\* consumed at the end of the format.
C12_IndicesAgree ==
  pc = "rendered" =>
    /\ rs.n = args.count
    /\ \A k \in Indexed :
         (/\ rs.segs[k].kind = "conv"
          /\ rs.segs[k].c \in ConvLetters
          /\ SoleUser(k))
         => args.types[rs.segs[k].h.curn]
              = Pass2Type(rs.segs[k].c, RenderedLongfmt(rs.segs[k]), Ty.INT8)

\* The bytes handed to write_char in the iterations lo .. hi of a history.
RECURSIVE SegText(_, _, _)
SegText(segs, lo, hi) ==
  IF lo > hi THEN <<>>
  ELSE IF lo = hi THEN segs[lo].bytes
  ELSE SegText(segs, lo, (lo + hi) \div 2)
         \o SegText(segs, ((lo + hi) \div 2) + 1, hi)

\* The full rendering of the format of the call: every byte the renderer
\* emitted, stored or not.
FullText == SegText(rs.segs, 1, Len(rs.segs))

\* C13: grub_vprintf hands grub_xputs a terminated string holding all L
\* bytes of the full rendering and returns L whenever L <= 255 or the
\* allocation of L + 1 bytes succeeds; when that allocation fails the sink is
\* handed the scratch contents ending in "...".
C13_PrintComplete ==
  (pc = "done" /\ entry = "vprintf") =>
    /\ Len(sink) = 1 /\ sink[1].terminated
    /\ ret = Len(FullText)
    /\ IF Len(FullText) <= PREALLOC_SIZE \/ hp.buf # "none"
       THEN sink[1].text = FullText
       ELSE sink[1].text =
              SubSeq(FullText, 1, PREALLOC_SIZE - 3)
                \o <<CH_dot, CH_dot, CH_dot>>

=============================================================================
